---------------------------- MODULE Spec2Model ----------------------------
(***************************************************************************)
(* A model of chatbot_api.py: the Flask request handlers (/health,         *)
(* /api/chat, /api/chat/reset, /api/cv/info), the before_request hook, the *)
(* lazily loaded CV text, the keyword classifier, the prompt builder and   *)
(* the per-session conversation history with its 10-turn retention.        *)
(*                                                                         *)
(* Text is modelled by TLA+ strings: Len, \o and SubSeq are Python's len,  *)
(* + and slicing.  Python's None and a key that is absent from a JSON      *)
(* object are the two markers None and Absent.                             *)
(***************************************************************************)
EXTENDS Naturals, Integers, Sequences, FiniteSets, TLC

VARIABLES
    conversation_history,  \* the global dict: session id -> list of turns
    cv_content,            \* the global CV text ("" while not loaded)
    cv_file,               \* what is on disk at Config.CV_FILE_PATH
    DEBUG,                 \* Config.DEBUG, fixed for the process
    request,               \* the request handled last (route, body, backend outcome)
    response,              \* the response returned last
    sent,                  \* the message list of the last completion call
    calls,                 \* completion calls made by the request handled last
    handled,               \* number of requests handled so far
    before,                \* turns the last request's session held when it arrived (-1: none)
    classified,            \* the classifier's last input and result
    threads                \* the request threads of the threaded server

vars == <<conversation_history, cv_content, cv_file, DEBUG, request, response,
          sent, calls, handled, before, classified, threads>>

None == "<None>"
Absent == "<absent>"

-----------------------------------------------------------------------------
(* Bounds of the model *)
\* requests handled in one behaviour of the sequential specification
MaxRequests == 6
\* requests handled in one behaviour of the runs with backend failures
MaxErrorRequests == 2
\* requests handled in one behaviour of the runs around the length limit
MaxLimitRequests == 2
\* requests started in one behaviour of the threaded specification
MaxStarted == 3
\* fragments a classifier input is put together from
MaxFragments == 2

-----------------------------------------------------------------------------
(* Program constants *)

MAX_MESSAGE_LENGTH == 2000
\* conversation_history[session_id][-5:]
ContextWindow == 5
\* conversation_history[session_id][-10:]
HistoryLimit == 10

-----------------------------------------------------------------------------
(* Python string operations *)

UpperCase == "ABCDEFGHIJKLMNOPQRSTUVWXYZ"
LowerCase == "abcdefghijklmnopqrstuvwxyz"

\* str.lower() on one character
LowerChar(c) ==
    IF \E i \in 1..Len(UpperCase) : SubSeq(UpperCase, i, i) = c
    THEN LET i == CHOOSE j \in 1..Len(UpperCase) : SubSeq(UpperCase, j, j) = c
         IN  SubSeq(LowerCase, i, i)
    ELSE c

\* str.lower()
RECURSIVE lower(_)
lower(s) ==
    IF Len(s) = 0 THEN ""
    ELSE IF Len(s) = 1 THEN LowerChar(s)
    ELSE LET h == Len(s) \div 2
         IN  lower(SubSeq(s, 1, h)) \o lower(SubSeq(s, h + 1, Len(s)))

Whitespace == {" ", "\t", "\n", "\r"}

\* str.lstrip()
RECURSIVE lstrip(_)
lstrip(s) ==
    IF Len(s) > 0 /\ SubSeq(s, 1, 1) \in Whitespace
    THEN lstrip(SubSeq(s, 2, Len(s)))
    ELSE s

\* str.rstrip()
RECURSIVE rstrip(_)
rstrip(s) ==
    IF Len(s) > 0 /\ SubSeq(s, Len(s), Len(s)) \in Whitespace
    THEN rstrip(SubSeq(s, 1, Len(s) - 1))
    ELSE s

\* str.strip(): leading and trailing whitespace removed
strip(s) == rstrip(lstrip(s))

\* keyword in message
Contains(keyword, message) ==
    \E i \in 1..(Len(message) - Len(keyword) + 1) :
        SubSeq(message, i, i + Len(keyword) - 1) = keyword

\* s repeated n times
RECURSIVE Rep(_, _)
Rep(s, n) ==
    IF n = 0 THEN ""
    ELSE IF n % 2 = 0 THEN LET h == Rep(s, n \div 2) IN h \o h
    ELSE s \o Rep(s, n - 1)

\* list[-n:]
LastN(list, n) ==
    IF Len(list) <= n THEN list ELSE SubSeq(list, Len(list) - n + 1, Len(list))

-----------------------------------------------------------------------------
(* The message texts requests carry *)

\* short texts, as typed: one asks about the person, one is a technical question
ShortTexts == {" Who are you? ", "What is a heap?"}

\* texts around the length limit: exactly at it, one over it, and at it or over
\* it with whitespace around
LongTexts ==
    {Rep("z", MAX_MESSAGE_LENGTH),
     Rep("z", MAX_MESSAGE_LENGTH + 1),
     Rep("z", MAX_MESSAGE_LENGTH) \o " ",
     "\n" \o Rep("z", MAX_MESSAGE_LENGTH + 1) \o " "}

\* texts that are empty once stripped
BlankTexts == {"", " \t\n"}

-----------------------------------------------------------------------------
(* is_cv_question *)

cv_keywords == {
    "laiba", "you", "your", "yourself",
    "experience", "worked", "job", "intern", "company", "binate", "stackware",
    "skills", "know", "proficient", "expert",
    "study", "studied", "education", "degree", "university", "college", "cgpa", "gpa",
    "projects", "built", "created", "developed", "portfolio",
    "contact", "email", "github", "reach",
    "about", "who are", "tell me about", "background" }

tech_keywords == {
    "what is", "how does", "explain", "difference between",
    "algorithm", "data structure", "code", "program",
    "example", "tutorial", "learn" }

\* any(keyword in message_lower for keyword in cv_keywords)
has_cv_keyword(message_lower) ==
    \E keyword \in cv_keywords : Contains(keyword, message_lower)

\* any(keyword in message_lower for keyword in tech_keywords)
has_tech_keyword(message_lower) ==
    \E keyword \in tech_keywords : Contains(keyword, message_lower)

is_general_tech_unguarded(message_lower) ==
    has_tech_keyword(message_lower)

\* any(keyword in message_lower for keyword in tech_keywords) and not has_cv_keyword
is_general_tech(message_lower) ==
    has_tech_keyword(message_lower) /\ ~has_cv_keyword(message_lower)

is_cv_question(message) ==
    LET message_lower == lower(message)
    IN  has_cv_keyword(message_lower) /\ ~is_general_tech(message_lower)

\* is_cv_question on the texts requests carry, computed once
is_cv_question_table ==
    [message \in {strip(m) : m \in ShortTexts \cup LongTexts} |-> is_cv_question(message)]

\* is_cv_question(message), looked up where it was computed already
is_cv_question_cached(message) ==
    IF message \in DOMAIN is_cv_question_table
    THEN is_cv_question_table[message]
    ELSE is_cv_question(message)

-----------------------------------------------------------------------------
(* create_system_prompt *)

GroundedHead == "You are Laiba Qayoom's AI assistant. Answer questions about Laiba using ONLY the CV information provided below.\nCV INFORMATION:\n"
GroundedRules == "\nRULES:\n- Use information ONLY from the CV above"
TechnicalPrompt == "You are a helpful technical assistant specializing in Computer Science, programming, and software development."

create_system_prompt(is_cv_query, cv) ==
    IF is_cv_query /\ cv # ""
    THEN GroundedHead \o cv \o GroundedRules
    ELSE TechnicalPrompt

-----------------------------------------------------------------------------
(* load_cv_content and the before_request hook *)

Missing == "<missing>"
Unreadable == "<unreadable>"

\* [cv_content, returned] of load_cv_content() with `file` at CV_FILE_PATH
load_cv_content(cv, file) ==
    IF file = Missing THEN [cv_content |-> cv, returned |-> FALSE]
    ELSE IF file = Unreadable THEN [cv_content |-> cv, returned |-> FALSE]
    ELSE [cv_content |-> file, returned |-> TRUE]

\* cv_content after the hook that runs before every request
before_first_request(cv, file) ==
    IF cv = "" THEN load_cv_content(cv, file).cv_content ELSE cv

-----------------------------------------------------------------------------
(* The completion backend's reply and what chat_with_groq makes of it *)

Turn(role, content) == [role |-> role, content |-> content]

NoException == [type |-> None, text |-> None]
Raise(type, text) == [type |-> type, text |-> text]

\* What the completion call comes back with: no answer within the timeout, or a
\* status code and a body.  The body is not JSON ("text"), a JSON object without
\* choices ("no_choices"), with an empty list of them ("empty_choices"), or with
\* a first choice whose message content is `content` ("choices").
Timeout == [kind |-> "timeout", status_code |-> 0, shape |-> None, content |-> None]
Http(status_code, shape, content) ==
    [kind |-> "http", status_code |-> status_code, shape |-> shape, content |-> content]

\* response.status_code == 200, response.json(), data['choices'][0]['message']['content']
ParseReply(outcome) ==
    IF outcome.kind = "timeout"
    THEN [raised |-> Raise("Timeout", "Read timed out. (read timeout=30)"), value |-> None]
    ELSE IF outcome.status_code # 200
    THEN [raised |-> Raise("Exception", "API error: " \o ToString(outcome.status_code)),
          value |-> None]
    ELSE IF outcome.shape = "text"
    THEN [raised |-> Raise("JSONDecodeError", "Expecting value: line 1 column 1 (char 0)"),
          value |-> None]
    ELSE IF outcome.shape = "no_choices"
    THEN [raised |-> Raise("KeyError", "'choices'"), value |-> None]
    ELSE IF outcome.shape = "empty_choices"
    THEN [raised |-> Raise("IndexError", "list index out of range"), value |-> None]
    ELSE [raised |-> NoException, value |-> outcome.content]

\* except ValueError: json.JSONDecodeError (and requests' JSONDecodeError) derive
\* from ValueError; KeyError, IndexError, Timeout and Exception do not
IsValueError(exc) == exc.type \in {"ValueError", "JSONDecodeError"}

-----------------------------------------------------------------------------
(* chat_with_groq, statement by statement *)

\* if session_id not in conversation_history: conversation_history[session_id] = []
EnsureSession(history, session_id) ==
    IF session_id \in DOMAIN history THEN history
    ELSE history @@ (session_id :> <<>>)

BuildMessagesWholeHistory(history, session_id, message, cv) ==
    <<Turn("system", create_system_prompt(is_cv_question_cached(message), cv))>>
        \o history[session_id]
        \o <<Turn("user", message)>>

\* messages = [system] + conversation_history[session_id][-5:] + [user]
BuildMessages(history, session_id, message, cv) ==
    <<Turn("system", create_system_prompt(is_cv_question_cached(message), cv))>>
        \o LastN(history[session_id], ContextWindow)
        \o <<Turn("user", message)>>

\* conversation_history[session_id].append(turn)
AppendTurn(history, session_id, turn) ==
    [history EXCEPT ![session_id] = Append(@, turn)]

TruncateKeepsOldest(history, session_id) ==
    IF Len(history[session_id]) > HistoryLimit
    THEN [history EXCEPT ![session_id] = SubSeq(@, 1, HistoryLimit)]
    ELSE history

\* if len(...) > 10: conversation_history[session_id] = conversation_history[session_id][-10:]
Truncate(history, session_id) ==
    IF Len(history[session_id]) > HistoryLimit
    THEN [history EXCEPT ![session_id] = LastN(@, HistoryLimit)]
    ELSE history

StoreExchangeReplyFirst(history, session_id, message, assistant_message) ==
    Truncate(AppendTurn(AppendTurn(history, session_id,
                                   Turn("assistant", assistant_message)),
                        session_id, Turn("user", message)),
             session_id)

\* the three statements that store an exchange
StoreExchange(history, session_id, message, assistant_message) ==
    Truncate(AppendTurn(AppendTurn(history, session_id, Turn("user", message)),
                        session_id, Turn("assistant", assistant_message)),
             session_id)

chat_with_groq_user_turn_first(history, cv, message, session_id, outcome) ==
    LET ensured  == EnsureSession(history, session_id)
        messages == BuildMessages(ensured, session_id, message, cv)
        reply    == ParseReply(outcome)
        asked    == AppendTurn(ensured, session_id, Turn("user", message))
    IN  [history |-> IF reply.raised = NoException
                     THEN Truncate(AppendTurn(asked, session_id,
                                              Turn("assistant", reply.value)),
                                   session_id)
                     ELSE asked,
         sent |-> messages,
         calls |-> 1,
         raised |-> reply.raised,
         assistant_message |-> reply.value,
         is_cv_query |-> is_cv_question_cached(message)]

\* The whole call, run without interruption: the history afterwards, the list sent,
\* the completion calls made, the exception raised (or NoException) and the result.
chat_with_groq(history, cv, message, session_id, outcome) ==
    LET ensured  == EnsureSession(history, session_id)
        messages == BuildMessages(ensured, session_id, message, cv)
        reply    == ParseReply(outcome)
    IN  [history |-> IF reply.raised = NoException
                     THEN StoreExchange(ensured, session_id, message, reply.value)
                     ELSE ensured,
         sent |-> messages,
         calls |-> 1,
         raised |-> reply.raised,
         assistant_message |-> reply.value,
         is_cv_query |-> is_cv_question_cached(message)]

-----------------------------------------------------------------------------
(* The request handlers *)

\* data.get(key, default)
Get(data, key, default) == IF data[key] = Absent THEN default ELSE data[key]

Json400(error) == [code |-> 400, error |-> error]

\* the success response of chat()
ChatSuccess(response_text, session_id, is_cv_query) ==
    [code |-> 200, response |-> response_text, status |-> "success",
     session_id |-> session_id,
     query_type |-> IF is_cv_query THEN "cv" ELSE "technical"]

\* the except clauses of chat()
ChatFailure(exc, debug) ==
    IF IsValueError(exc)
    THEN [code |-> 500, error |-> exc.text,
          details |-> "Please check your API key configuration"]
    ELSE [code |-> 500, error |-> "An error occurred processing your request",
          details |-> IF debug THEN exc.text ELSE None]

TooLongOffByOne(message) == Len(message) > MAX_MESSAGE_LENGTH + 1

\* len(message) > Config.MAX_MESSAGE_LENGTH
TooLong(message) == Len(message) > MAX_MESSAGE_LENGTH

\* chat()'s answer to a body it refuses, "" when it accepts the body
Refusal(body) ==
    IF ~body.is_json THEN "Content-Type must be application/json"
    ELSE IF strip(Get(body, "message", "")) = "" THEN "No message provided"
    ELSE IF TooLong(strip(Get(body, "message", "")))
    THEN "Message too long (max " \o ToString(MAX_MESSAGE_LENGTH) \o " characters)"
    ELSE ""

\* chat(): [history, response, sent, calls] for one POST /api/chat
chat(history, cv, debug, body, outcome) ==
    LET message    == strip(Get(body, "message", ""))
        session_id == Get(body, "session_id", "default")
    IN  IF Refusal(body) # ""
        THEN [history |-> history, response |-> Json400(Refusal(body)),
              sent |-> <<>>, calls |-> 0]
        ELSE LET r == chat_with_groq(history, cv, message, session_id, outcome)
             IN  [history |-> r.history,
                  response |->
                      IF r.raised = NoException
                      THEN ChatSuccess(r.assistant_message, session_id, r.is_cv_query)
                      ELSE ChatFailure(r.raised, debug),
                  sent |-> r.sent,
                  calls |-> r.calls]

reset_chat_clears(history, body) ==
    LET session_id == IF body.is_json THEN Get(body, "session_id", "default")
                      ELSE "default"
    IN  [history |-> IF session_id \in DOMAIN history
                     THEN [history EXCEPT ![session_id] = <<>>]
                     ELSE history,
         response |-> [code |-> 200, status |-> "Conversation history reset",
                       session_id |-> session_id]]

\* del conversation_history[session_id]
Delete(history, session_id) ==
    [s \in DOMAIN history \ {session_id} |-> history[s]]

\* reset_chat(): [history, response] for one POST /api/chat/reset
reset_chat(history, body) ==
    LET session_id == IF body.is_json THEN Get(body, "session_id", "default")
                      ELSE "default"
    IN  [history |-> IF session_id \in DOMAIN history
                     THEN Delete(history, session_id)
                     ELSE history,
         response |-> [code |-> 200, status |-> "Conversation history reset",
                       session_id |-> session_id]]

\* health_check()
health_check(cv) ==
    [code |-> 200, status |-> "healthy", cv_loaded |-> cv # "", cv_size |-> Len(cv)]

\* get_cv_info()
get_cv_info(cv) ==
    [code |-> 200, cv_loaded |-> cv # "", cv_size |-> Len(cv)]

-----------------------------------------------------------------------------
(* The requests and replies the model draws from *)

CvText == "Laiba Qayoom, BS Computer Science"

\* what Config.CV_FILE_PATH names when the process starts
Files == {Missing, CvText}

\* what it may name later
LaterFiles == Files \cup {Unreadable, "", "Laiba Qayoom, MS Data Science"}

ChatBody(is_json, message, session_id) ==
    [is_json |-> is_json, message |-> message, session_id |-> session_id]
ResetBody(is_json, session_id) == [is_json |-> is_json, session_id |-> session_id]

SessionArgs == {Absent, "s1"}

\* bodies of the long runs: no message, blank and short messages
ChatBodies ==
    {ChatBody(FALSE, Absent, Absent)}
        \cup {ChatBody(TRUE, m, s) :
                m \in {Absent} \cup BlankTexts \cup ShortTexts, s \in SessionArgs}

\* bodies around the length limit
LimitBodies ==
    {ChatBody(FALSE, Absent, Absent)}
        \cup {ChatBody(TRUE, m, s) :
                m \in {Absent} \cup BlankTexts \cup LongTexts, s \in SessionArgs}

\* bodies that pass validation
ValidBodies == {ChatBody(TRUE, m, s) : m \in ShortTexts, s \in SessionArgs}

ResetBodies ==
    {ResetBody(FALSE, Absent)} \cup {ResetBody(TRUE, s) : s \in SessionArgs}

Failures ==
    {Timeout, Http(500, "text", "Internal Server Error"), Http(200, "text", "<html>"),
     Http(200, "no_choices", None), Http(200, "empty_choices", None)}

Replies == {Http(200, "choices", "r1"), Http(200, "choices", "r2")}

\* outcomes of the long runs: one failure, one reply
Outcomes == {Http(500, "text", "Internal Server Error"), Http(200, "choices", "r1")}

\* the session a body names
SessionOf(body) == Get(body, "session_id", "default")

\* the turns a session holds, -1 when there is no such session
TurnsOf(history, session_id) ==
    IF session_id \in DOMAIN history THEN Len(history[session_id]) ELSE -1

NoRequest == [route |-> None]
NoResponse == [code |-> 0]
EmptyHistory == [s \in {} |-> <<>>]
NoThreads == [t \in {} |-> None]
NotClassified == [message |-> None, done |-> FALSE, result |-> FALSE]

-----------------------------------------------------------------------------
(* The sequential server: one request at a time, each handled to its end *)

\* The process after start-up: run as a script it has loaded the CV file if there
\* is one, imported by a WSGI server it has not.
ProcessInit ==
    /\ conversation_history = EmptyHistory
    /\ cv_file \in Files
    /\ \E run_as_main \in BOOLEAN :
         cv_content = IF run_as_main THEN load_cv_content("", cv_file).cv_content ELSE ""
    /\ DEBUG \in BOOLEAN
    /\ request = NoRequest
    /\ response = NoResponse
    /\ sent = <<>>
    /\ calls = 0
    /\ handled = 0
    /\ before = -1

Init ==
    /\ ProcessInit
    /\ classified = NotClassified
    /\ threads = NoThreads

\* POST /api/chat
Chat(body, outcome) ==
    /\ LET cv == before_first_request(cv_content, cv_file)
           r  == chat(conversation_history, cv, DEBUG, body, outcome)
       IN  /\ cv_content' = cv
           /\ conversation_history' = r.history
           /\ response' = r.response
           /\ sent' = r.sent
           /\ calls' = r.calls
           /\ request' = [route |-> "/api/chat", body |-> body,
                          outcome |-> IF r.calls = 0 THEN Timeout ELSE outcome]
    /\ before' = TurnsOf(conversation_history, SessionOf(body))
    /\ handled' = handled + 1
    /\ UNCHANGED <<cv_file, DEBUG, classified, threads>>

\* POST /api/chat/reset
Reset(body) ==
    /\ LET r == reset_chat(conversation_history, body)
       IN  /\ conversation_history' = r.history
           /\ response' = r.response
    /\ cv_content' = before_first_request(cv_content, cv_file)
    /\ request' = [route |-> "/api/chat/reset", body |-> body]
    /\ before' = TurnsOf(conversation_history, SessionOf(body))
    /\ sent' = <<>>
    /\ calls' = 0
    /\ handled' = handled + 1
    /\ UNCHANGED <<cv_file, DEBUG, classified, threads>>

\* GET /health
Health ==
    /\ LET cv == before_first_request(cv_content, cv_file)
       IN  /\ cv_content' = cv
           /\ response' = health_check(cv)
    /\ request' = [route |-> "/health"]
    /\ before' = -1
    /\ sent' = <<>>
    /\ calls' = 0
    /\ handled' = handled + 1
    /\ UNCHANGED <<conversation_history, cv_file, DEBUG, classified, threads>>

\* GET /api/cv/info
CvInfo ==
    /\ LET cv == before_first_request(cv_content, cv_file)
       IN  /\ cv_content' = cv
           /\ response' = get_cv_info(cv)
    /\ request' = [route |-> "/api/cv/info"]
    /\ before' = -1
    /\ sent' = <<>>
    /\ calls' = 0
    /\ handled' = handled + 1
    /\ UNCHANGED <<conversation_history, cv_file, DEBUG, classified, threads>>

\* The file at CV_FILE_PATH is written, replaced, removed or made unreadable.
FileChange(file) ==
    /\ file # cv_file
    /\ cv_file' = file
    /\ UNCHANGED <<conversation_history, cv_content, DEBUG, request, response, sent,
                   calls, handled, before, classified, threads>>

\* the long runs: few inputs, enough requests to fill a session past its limit
Next ==
    \/ \E body \in ChatBodies, outcome \in Outcomes :
         handled < MaxRequests /\ Chat(body, outcome)
    \/ \E body \in ResetBodies : handled < MaxRequests /\ Reset(body)
    \/ handled < MaxRequests /\ Health
    \/ handled < MaxRequests /\ CvInfo

Spec == Init /\ [][Next]_vars

\* short runs with every kind of backend failure and a changing CV file
ErrorNext ==
    \/ \E body \in ValidBodies, outcome \in Failures \cup Replies :
         handled < MaxErrorRequests /\ Chat(body, outcome)
    \/ \E body \in ResetBodies : handled < MaxErrorRequests /\ Reset(body)
    \/ handled < MaxErrorRequests /\ Health
    \/ handled < MaxErrorRequests /\ CvInfo
    \/ \E file \in LaterFiles : FileChange(file)

ErrorSpec == Init /\ [][ErrorNext]_vars

\* short runs with messages around the length limit
LimitNext ==
    \/ \E body \in LimitBodies, outcome \in Outcomes :
         handled < MaxLimitRequests /\ Chat(body, outcome)
    \/ \E body \in ResetBodies : handled < MaxLimitRequests /\ Reset(body)

LimitSpec == Init /\ [][LimitNext]_vars

-----------------------------------------------------------------------------
(* The classifier alone, on messages put together from fragments *)

Fragments ==
    {"Tell me about your experience ", "at Stackware", "What is ",
     "a binary search tree?", "What is your experience ", "with binary search trees?",
     "EXPL", "AIN sorting", "Hello ", "young"}

\* the messages made of at most n fragments
RECURSIVE Composed(_)
Composed(n) ==
    IF n = 0 THEN {""}
    ELSE LET shorter == Composed(n - 1)
         IN  shorter \cup {m \o f : m \in shorter, f \in Fragments}

ClassifierInputs == Composed(MaxFragments)

\* a message waits to be classified; the process state plays no part
ClassifyInit ==
    /\ classified \in {[message |-> m, done |-> FALSE, result |-> FALSE] :
                        m \in ClassifierInputs}
    /\ conversation_history = EmptyHistory
    /\ cv_file = Missing
    /\ cv_content = ""
    /\ DEBUG = FALSE
    /\ request = NoRequest
    /\ response = NoResponse
    /\ sent = <<>>
    /\ calls = 0
    /\ handled = 0
    /\ before = -1
    /\ threads = NoThreads

\* is_cv_question(message)
Classify ==
    /\ ~classified.done
    /\ classified' = [classified EXCEPT !.done = TRUE,
                                        !.result = is_cv_question(classified.message)]
    /\ UNCHANGED <<conversation_history, cv_content, cv_file, DEBUG, request, response,
                   sent, calls, handled, before, threads>>

ClassifyNext == Classify

ClassifySpec == ClassifyInit /\ [][ClassifyNext]_vars

-----------------------------------------------------------------------------
(* The threaded server: app.run serves each request on a thread of its own, *)
(* and no lock guards conversation_history.  A thread may be preempted      *)
(* between any two statements (and within one); the model lets threads      *)
(* interleave between the statements of chat_with_groq and of reset_chat    *)
(* that read or write conversation_history, and around the completion call. *)

Workers == {"w1", "w2"}

ThreadChatBodies ==
    {ChatBody(TRUE, "What is a heap?", s) : s \in SessionArgs}
        \cup {ChatBody(TRUE, "", Absent)}
ThreadResetBodies == {ResetBody(TRUE, s) : s \in SessionArgs}

Idle ==
    [pc |-> "idle", route |-> None, body |-> ResetBody(FALSE, Absent),
     message |-> None, session_id |-> None, messages |-> <<>>, outcome |-> Timeout,
     assistant_message |-> None, response |-> NoResponse]

ThreadInit ==
    /\ ProcessInit
    /\ classified = NotClassified
    /\ threads = [w \in Workers |-> Idle]

Running == {w \in Workers : threads[w].pc \notin {"idle", "done"}}

ThreadFrame ==
    UNCHANGED <<cv_file, DEBUG, request, response, sent, calls, before, classified>>

\* the thread returns `resp`
Return(w, resp) ==
    /\ threads' = [threads EXCEPT ![w].pc = "done", ![w].response = resp]
    /\ handled' = handled + 1

\* str(KeyError(session_id))
KeyError(session_id) == Raise("KeyError", "'" \o session_id \o "'")

\* before_request, then chat() down to the call of chat_with_groq
StartChat(w, body) ==
    /\ threads[w].pc \in {"idle", "done"}
    /\ handled + Cardinality(Running) < MaxStarted
    /\ cv_content' = before_first_request(cv_content, cv_file)
    /\ IF Refusal(body) # ""
       THEN /\ threads' = [threads EXCEPT ![w] =
                             [Idle EXCEPT !.pc = "done", !.route = "/api/chat",
                                          !.body = body,
                                          !.response = Json400(Refusal(body))]]
            /\ handled' = handled + 1
       ELSE /\ threads' = [threads EXCEPT ![w] =
                             [Idle EXCEPT !.pc = "ensure", !.route = "/api/chat",
                                          !.body = body,
                                          !.message = strip(Get(body, "message", "")),
                                          !.session_id = SessionOf(body)]]
            /\ handled' = handled
    /\ UNCHANGED conversation_history
    /\ ThreadFrame

\* if session_id not in conversation_history: conversation_history[session_id] = []
ChatEnsure(w) ==
    /\ threads[w].pc = "ensure"
    /\ conversation_history' = EnsureSession(conversation_history, threads[w].session_id)
    /\ threads' = [threads EXCEPT ![w].pc = "build"]
    /\ UNCHANGED <<cv_content, handled>>
    /\ ThreadFrame

\* the messages list, which reads conversation_history[session_id]
ChatBuild(w) ==
    /\ threads[w].pc = "build"
    /\ IF threads[w].session_id \in DOMAIN conversation_history
       THEN /\ threads' = [threads EXCEPT
                             ![w].pc = "call",
                             ![w].messages = BuildMessages(conversation_history,
                                                           threads[w].session_id,
                                                           threads[w].message,
                                                           cv_content)]
            /\ handled' = handled
       ELSE Return(w, ChatFailure(KeyError(threads[w].session_id), DEBUG))
    /\ UNCHANGED <<conversation_history, cv_content>>
    /\ ThreadFrame

\* requests.post(...) returns or times out; the reply is parsed
ChatCall(w, outcome) ==
    /\ threads[w].pc = "call"
    /\ LET reply == ParseReply(outcome)
       IN  IF reply.raised = NoException
           THEN /\ threads' = [threads EXCEPT ![w].pc = "append_user",
                                              ![w].outcome = outcome,
                                              ![w].assistant_message = reply.value]
                /\ handled' = handled
           ELSE /\ threads' = [threads EXCEPT
                                 ![w].pc = "done",
                                 ![w].outcome = outcome,
                                 ![w].response = ChatFailure(reply.raised, DEBUG)]
                /\ handled' = handled + 1
    /\ UNCHANGED <<conversation_history, cv_content>>
    /\ ThreadFrame

\* conversation_history[session_id].append({"role": "user", ...})
ChatAppendUser(w) ==
    /\ threads[w].pc = "append_user"
    /\ IF threads[w].session_id \in DOMAIN conversation_history
       THEN /\ conversation_history' =
                 AppendTurn(conversation_history, threads[w].session_id,
                            Turn("user", threads[w].message))
            /\ threads' = [threads EXCEPT ![w].pc = "append_assistant"]
            /\ handled' = handled
       ELSE /\ Return(w, ChatFailure(KeyError(threads[w].session_id), DEBUG))
            /\ UNCHANGED conversation_history
    /\ UNCHANGED cv_content
    /\ ThreadFrame

\* conversation_history[session_id].append({"role": "assistant", ...})
ChatAppendAssistant(w) ==
    /\ threads[w].pc = "append_assistant"
    /\ IF threads[w].session_id \in DOMAIN conversation_history
       THEN /\ conversation_history' =
                 AppendTurn(conversation_history, threads[w].session_id,
                            Turn("assistant", threads[w].assistant_message))
            /\ threads' = [threads EXCEPT ![w].pc = "truncate"]
            /\ handled' = handled
       ELSE /\ Return(w, ChatFailure(KeyError(threads[w].session_id), DEBUG))
            /\ UNCHANGED conversation_history
    /\ UNCHANGED cv_content
    /\ ThreadFrame

\* the truncation to the last 10, the return and chat()'s success response
ChatTruncate(w) ==
    /\ threads[w].pc = "truncate"
    /\ IF threads[w].session_id \in DOMAIN conversation_history
       THEN /\ conversation_history' =
                 Truncate(conversation_history, threads[w].session_id)
            /\ Return(w, ChatSuccess(threads[w].assistant_message,
                                     threads[w].session_id,
                                     is_cv_question_cached(threads[w].message)))
       ELSE /\ Return(w, ChatFailure(KeyError(threads[w].session_id), DEBUG))
            /\ UNCHANGED conversation_history
    /\ UNCHANGED cv_content
    /\ ThreadFrame

\* before_request, then reset_chat() down to its test of the session
StartReset(w, body) ==
    /\ threads[w].pc \in {"idle", "done"}
    /\ handled + Cardinality(Running) < MaxStarted
    /\ cv_content' = before_first_request(cv_content, cv_file)
    /\ threads' = [threads EXCEPT ![w] =
                     [Idle EXCEPT !.pc = "test", !.route = "/api/chat/reset",
                                  !.body = body, !.session_id = SessionOf(body)]]
    /\ UNCHANGED <<conversation_history, handled>>
    /\ ThreadFrame

\* if session_id in conversation_history:
ResetTest(w) ==
    /\ threads[w].pc = "test"
    /\ IF threads[w].session_id \in DOMAIN conversation_history
       THEN threads' = [threads EXCEPT ![w].pc = "delete"] /\ handled' = handled
       ELSE Return(w, [code |-> 200, status |-> "Conversation history reset",
                       session_id |-> threads[w].session_id])
    /\ UNCHANGED <<conversation_history, cv_content>>
    /\ ThreadFrame

\* del conversation_history[session_id], and the response
ResetDelete(w) ==
    /\ threads[w].pc = "delete"
    /\ IF threads[w].session_id \in DOMAIN conversation_history
       THEN /\ conversation_history' = Delete(conversation_history, threads[w].session_id)
            /\ Return(w, [code |-> 200, status |-> "Conversation history reset",
                          session_id |-> threads[w].session_id])
       ELSE /\ Return(w, [code |-> 500,
                          error |-> KeyError(threads[w].session_id).text])
            /\ UNCHANGED conversation_history
    /\ UNCHANGED cv_content
    /\ ThreadFrame

ThreadNext ==
    \/ \E w \in Workers, body \in ThreadChatBodies : StartChat(w, body)
    \/ \E w \in Workers : ChatEnsure(w)
    \/ \E w \in Workers : ChatBuild(w)
    \/ \E w \in Workers, outcome \in Outcomes : ChatCall(w, outcome)
    \/ \E w \in Workers : ChatAppendUser(w)
    \/ \E w \in Workers : ChatAppendAssistant(w)
    \/ \E w \in Workers : ChatTruncate(w)
    \/ \E w \in Workers, body \in ThreadResetBodies : StartReset(w, body)
    \/ \E w \in Workers : ResetTest(w)
    \/ \E w \in Workers : ResetDelete(w)

ThreadSpec == ThreadInit /\ [][ThreadNext]_vars

-----------------------------------------------------------------------------
(* What the claims below speak of *)

\* the step handles a request
Handles == handled' # handled

\* the step handles a POST /api/chat
HandlesChat == Handles /\ request'.route = "/api/chat"

\* the message chat() hands to chat_with_groq: the body's message, stripped
MessageOf(body) == strip(Get(body, "message", ""))

\* the turns a session holds, none when there is no such session
Stored(history, session_id) ==
    IF session_id \in DOMAIN history THEN history[session_id] ELSE <<>>

-----------------------------------------------------------------------------
(* C1: no session ever holds more than 10 turns, and when a successful chat *)
(* takes a session past 10 turns the session is left with exactly the 10    *)
(* most recent ones, oldest first.                                          *)
C1_HistoryBounded ==
    /\ [](\A s \in DOMAIN conversation_history : Len(conversation_history[s]) <= 10)
    /\ [][(HandlesChat /\ response'.code = 200) =>
            LET s   == SessionOf(request'.body)
                all == Stored(conversation_history, s)
                         \o <<Turn("user", MessageOf(request'.body)),
                              Turn("assistant", request'.outcome.content)>>
            IN  Len(all) > 10 =>
                  conversation_history'[s] = [i \in 1..10 |-> all[Len(all) - 10 + i]]
          ]_vars

\* a successful chat arrived at a session that was full
C1_Witness ==
    /\ request.route = "/api/chat"
    /\ response.code = 200
    /\ before = 10
    /\ Len(conversation_history[SessionOf(request.body)]) = 10

(* C2: the list sent to the backend is one system instruction, then the     *)
(* last min(5, len) turns the request's session held, in order, then the    *)
(* new user message; it has 2 to 7 entries.                                 *)
C2_MessageList ==
    [][(HandlesChat /\ calls' > 0) =>
         LET old == Stored(conversation_history, SessionOf(request'.body))
             n   == IF Len(old) < 5 THEN Len(old) ELSE 5
         IN  /\ Len(sent') = n + 2
             /\ Len(sent') \in 2..7
             /\ sent'[1].role = "system"
             /\ \A i \in 2..Len(sent') : sent'[i].role # "system"
             /\ \A i \in 1..n : sent'[1 + i] = old[Len(old) - n + i]
             /\ sent'[n + 2] = Turn("user", MessageOf(request'.body))
      ]_vars

\* a full context window was sent while another session held other turns
C2_Witness ==
    /\ request.route = "/api/chat"
    /\ calls = 1
    /\ Len(sent) = 7
    /\ before > 5
    /\ \E t \in DOMAIN conversation_history :
         /\ t # SessionOf(request.body)
         /\ Len(conversation_history[t]) > 0
         /\ conversation_history[t][1] # conversation_history[SessionOf(request.body)][1]

(* C3: a reset answers 200 and leaves its session absent and every other    *)
(* session as it was; a reset of a session that does not exist changes      *)
(* nothing; the chat that follows a reset on the same session sends no      *)
(* context turns.                                                           *)
C3_Reset ==
    /\ [][(Handles /\ request'.route = "/api/chat/reset") =>
            LET s == SessionOf(request'.body)
            IN  /\ response'.code = 200
                /\ response'.session_id = s
                /\ s \notin DOMAIN conversation_history'
                /\ DOMAIN conversation_history' = DOMAIN conversation_history \ {s}
                /\ \A t \in DOMAIN conversation_history' :
                     conversation_history'[t] = conversation_history[t]
                /\ s \notin DOMAIN conversation_history =>
                     conversation_history' = conversation_history
          ]_vars
    /\ [][(/\ request.route = "/api/chat/reset"
           /\ HandlesChat
           /\ calls' > 0
           /\ SessionOf(request'.body) = SessionOf(request.body)) =>
            /\ Len(sent') = 2
            /\ sent'[1].role = "system"
            /\ sent'[2].role = "user"
          ]_vars

\* a session that held turns was reset while another session held turns
C3_Witness ==
    /\ request.route = "/api/chat/reset"
    /\ before > 0
    /\ response.code = 200
    /\ \E t \in DOMAIN conversation_history : Len(conversation_history[t]) > 0

(* C9: when a chat returns success with reply r for message m, its          *)
(* session's history ends with (user, m) followed by (assistant, r), and r  *)
(* is the content of the first choice of the backend's response.            *)
C9_ReplyStored ==
    (request.route = "/api/chat" /\ response.code = 200) =>
        LET h == Stored(conversation_history, response.session_id)
        IN  /\ response.session_id = SessionOf(request.body)
            /\ response.response = request.outcome.content
            /\ request.outcome.shape = "choices"
            /\ Len(h) >= 2
            /\ h[Len(h) - 1] = Turn("user", MessageOf(request.body))
            /\ h[Len(h)] = Turn("assistant", response.response)

\* a success on a session that already held turns
C9_Witness ==
    /\ request.route = "/api/chat"
    /\ response.code = 200
    /\ before >= 2
    /\ response.query_type = "cv"

(* C10: a chat that fails after validation makes exactly one backend call   *)
(* and appends no turn: every session that existed keeps its turns, and the *)
(* only change allowed is that the request's session, absent before, now    *)
(* exists with no turns.                                                    *)
C10_FailureStoresNothing ==
    [][(HandlesChat /\ response'.code = 500) =>
         LET s == SessionOf(request'.body)
         IN  /\ calls' = 1
             /\ \A t \in DOMAIN conversation_history :
                  /\ t \in DOMAIN conversation_history'
                  /\ conversation_history'[t] = conversation_history[t]
             /\ \A t \in DOMAIN conversation_history' \ DOMAIN conversation_history :
                  t = s /\ conversation_history'[t] = <<>>
      ]_vars

\* a failed chat on a new session while another session held turns
C10_Witness ==
    /\ request.route = "/api/chat"
    /\ response.code = 500
    /\ before = -1
    /\ conversation_history[SessionOf(request.body)] = <<>>
    /\ \E t \in DOMAIN conversation_history : Len(conversation_history[t]) > 0

\* the text of the exception a backend outcome makes chat_with_groq raise
ExceptionText(outcome) == ParseReply(outcome).raised.text

(* C6: whatever fails in the chat pipeline (a non-200 status, a body that   *)
(* is not JSON, a reply without the choices shape, a timeout), the 500      *)
(* response holds the exception's text only when the debug flag is set.     *)
C6_DetailsOnlyInDebug ==
    (request.route = "/api/chat" /\ response.code = 500 /\ ~DEBUG) =>
        /\ response.error # ExceptionText(request.outcome)
        /\ response.details # ExceptionText(request.outcome)

(* C7: once a request has been handled the document never changes, whether  *)
(* it is absent or present and whatever happens to the file; and a load on  *)
(* a missing path reports failure.                                          *)
C7_DocumentImmutable ==
    /\ [][handled >= 1 => cv_content' = cv_content]_vars
    /\ [](load_cv_content(cv_content, Missing)
            = [cv_content |-> cv_content, returned |-> FALSE])

(* C4 as claimed: POST /api/chat answers 400 whenever the message is       *)
(* missing, empty or longer than 2000 characters, calls no backend and      *)
(* changes no history.                                                      *)
C4_LongMessageRejected ==
    [][(HandlesChat /\ (\/ request'.body.message = Absent
                        \/ request'.body.message = ""
                        \/ Len(request'.body.message) > 2000)) =>
         /\ response'.code = 400
         /\ calls' = 0
         /\ conversation_history' = conversation_history
      ]_vars

(* C4 as amended: POST /api/chat answers 400 whenever the request is not JSON, *)
(* the message is missing, or the message with the whitespace around it     *)
(* stripped is empty or longer than 2000 characters; it then calls no       *)
(* backend and changes no history.                                          *)
C4_StrippedMessageRejected ==
    [][(HandlesChat /\ (\/ ~request'.body.is_json
                        \/ request'.body.message = Absent
                        \/ strip(request'.body.message) = ""
                        \/ Len(strip(request'.body.message)) > 2000)) =>
         /\ response'.code = 400
         /\ calls' = 0
         /\ sent' = <<>>
         /\ conversation_history' = conversation_history
      ]_vars

\* a message of 2001 characters besides the whitespace around it was refused
\* while a session held turns
C4_Witness ==
    /\ request.route = "/api/chat"
    /\ request.body.message # Absent
    /\ Len(strip(request.body.message)) = 2001
    /\ Len(request.body.message) > 2001
    /\ response.code = 400
    /\ \E t \in DOMAIN conversation_history : Len(conversation_history[t]) > 0

\* some keyword of the set is a substring of the lowercased message
Matches(keywords, message) ==
    LET lowered == lower(message)
    IN  \E keyword \in keywords :
            \E i \in 1..Len(lowered) :
                /\ i + Len(keyword) - 1 <= Len(lowered)
                /\ SubSeq(lowered, i, i + Len(keyword) - 1) = keyword

(* C5: the classifier answers (a grounding keyword matches) and not (a      *)
(* technical keyword matches and no grounding keyword does): a message      *)
(* matching both sets is document-grounded, one matching technical keywords *)
(* only or neither set is general, and the answer is the same as "a         *)
(* grounding keyword matches".                                              *)
C5_Classifier ==
    classified.done =>
        LET m         == classified.message
            grounding == Matches(cv_keywords, m)
            technical == Matches(tech_keywords, m)
        IN  /\ classified.result = (grounding /\ ~(technical /\ ~grounding))
            /\ classified.result = grounding
            /\ (grounding /\ technical) => classified.result
            /\ ~grounding => ~classified.result
            /\ m = "Tell me about your experience at Stackware" => classified.result
            /\ m = "What is a binary search tree?" => ~classified.result
            /\ m = "What is your experience with binary search trees?"
                 => classified.result

\* a message holding a keyword of each set was classified
C5_Witness ==
    /\ classified.done
    /\ classified.message = "What is your experience with binary search trees?"
    /\ Matches(cv_keywords, classified.message)
    /\ Matches(tech_keywords, classified.message)
    /\ classified.result

(* C8: a chat with a valid message whose completion call returns a          *)
(* well-formed 200 reply answers 200 success, however its statements        *)
(* interleave with other chats and resets on the same session.              *)
C8_ChatIndependent ==
    \A w \in Workers :
        (/\ threads[w].pc = "done"
         /\ threads[w].route = "/api/chat"
         /\ Refusal(threads[w].body) = ""
         /\ ParseReply(threads[w].outcome).raised = NoException)
        => (threads[w].response.code = 200 /\ threads[w].response.status = "success")

=============================================================================
